---- MODULE Spec2Model ----
(***************************************************************************)
(* Guiding potentials of rfdiffusion/potentials/potentials.py.             *)
(*                                                                         *)
(* The module is a library of potential classes.  The state machine below  *)
(* is the life of one potential slot of the sampler: a constructor call    *)
(* fills `pot` (or raises), the sampler draws the structure `xyz`, and a   *)
(* compute call scores it with the object in `pot` and leaves its return   *)
(* value or exception in `ret`.  `installed` says of each optional package *)
(* whether the interpreter can import it: "unknown" until the first import *)
(* statement for it runs, and fixed from then on.                          *)
(*                                                                         *)
(* Numbers.  The code computes in floating point; the model computes the   *)
(* same expressions exactly.  A rational is a pair <<n, d>> in lowest      *)
(* terms with d > 0, and <<0, 0>> is NaN (the value of 0/0).  Coordinates  *)
(* are integer triples in units of sqrt(8) Angstrom, so that squared       *)
(* distances are integers (8 times the squared lattice distance) and the   *)
(* lattice holds equilateral triangles of side 4.  sqrt is exact: the      *)
(* structures given to the contact potentials have integer Calpha          *)
(* distances, and a radius of gyration is carried as its radicand.         *)
(***************************************************************************)
EXTENDS Integers, Sequences, FiniteSets, TLC

VARIABLES installed, pot, call, xyz, ret

vars == <<installed, pot, call, xyz, ret>>

(***************************************************************************)
(* Bounds of the model.                                                    *)
(***************************************************************************)
\* largest number of residues of a structure
MaxL == 4
\* largest dimension of a contact matrix
MaxChain == 2
\* largest length of a diffusion mask
MaxMask == 5

(***************************************************************************)
(* Exact arithmetic.                                                       *)
(***************************************************************************)
Abs(a) == IF a < 0 THEN -a ELSE a

Max(a, b) == IF a >= b THEN a ELSE b

Min(a, b) == IF a <= b THEN a ELSE b

RECURSIVE GCD(_, _)
GCD(a, b) == IF b = 0 THEN Abs(a) ELSE GCD(b, a % Abs(b))

NaN == <<0, 0>>

IsNaN(q) == q[2] = 0

\* n/d in lowest terms; anything over 0 that the model meets is 0/0
Rat(n, d) ==
    IF d = 0 THEN NaN
    ELSE LET g == GCD(n, d)
             s == IF d < 0 THEN -1 ELSE 1
         IN  <<s * (n \div g), s * (d \div g)>>

Whole(n) == <<n, 1>>

RAdd(p, q) ==
    IF IsNaN(p) \/ IsNaN(q) THEN NaN
    ELSE LET g == GCD(p[2], q[2])
         IN  Rat(p[1] * (q[2] \div g) + q[1] * (p[2] \div g), (p[2] \div g) * q[2])

RNeg(p) == IF IsNaN(p) THEN NaN ELSE <<-p[1], p[2]>>

RSub(p, q) == RAdd(p, RNeg(q))

RMul(p, q) ==
    IF IsNaN(p) \/ IsNaN(q) THEN NaN
    ELSE LET g1 == GCD(p[1], q[2])
             g2 == GCD(q[1], p[2])
         IN  Rat((p[1] \div g1) * (q[1] \div g2), (p[2] \div g2) * (q[2] \div g1))

\* p / q; the only zero divisor in the model is the kernel's 0/0
RDiv(p, q) ==
    IF IsNaN(p) \/ IsNaN(q) \/ q[1] = 0 THEN NaN
    ELSE RMul(p, Rat(q[2], q[1]))

RPow(p, k) == IF IsNaN(p) THEN NaN ELSE <<p[1] ^ k, p[2] ^ k>>

\* the sum of a sequence of rationals (Python's sum([...]) starts from 0)
RECURSIVE RSum(_)
RSum(s) == IF s = <<>> THEN Whole(0) ELSE RAdd(Head(s), RSum(Tail(s)))

\* the exact square root of a perfect square
Sqrt(n) == CHOOSE r \in 0..n : r * r = n

IsSquare(n) == \E r \in 0..n : r * r = n

(***************************************************************************)
(* Structures: xyz[i, 1], the Calpha of residue i, for i in 0..L-1.        *)
(***************************************************************************)
Origin == <<0, 0, 0>>

\* three sites on a line, 4 Angstrom apart, and one site off the line that
\* makes an equilateral triangle of side 4 with the first two
Sites == {<<0, 0, 0>>, <<1, 1, 0>>, <<2, 2, 0>>, <<1, 0, 1>>}

\* squared Euclidean distance in Angstrom^2
SqDist(p, q) ==
    8 * ((p[1] - q[1]) ^ 2 + (p[2] - q[2]) ^ 2 + (p[3] - q[3]) ^ 2)

shape0(x) == Cardinality(DOMAIN x.Ca)

IntegerDistances(Ca) ==
    \A i, j \in DOMAIN Ca : IsSquare(SqDist(Ca[i], Ca[j]))

Structures ==
    UNION {{[Ca |-> f] : f \in {g \in [0..(L - 1) -> Sites] :
                                  g[0] = Origin /\ IntegerDistances(g)}}
           : L \in 1..MaxL}

NoXyz == [Ca |-> <<>>]

\* xyz[lo:hi, 1] as a sequence (a Python slice clips at the length)
Slice(x, lo, hi) ==
    LET h == Min(hi, shape0(x))
    IN  [k \in 1..Max(h - lo, 0) |-> x.Ca[lo + k - 1]]

\* xyz[idx, 1] for a sequence of indices
Take(x, idx) == [k \in 1..Len(idx) |-> x.Ca[idx[k]]]

(***************************************************************************)
(* Return values.                                                          *)
(***************************************************************************)
NoRet == [kind |-> "none"]

Raise(e) == [kind |-> "raise", exc |-> e]

Num(q) == [kind |-> "num", v |-> q]

Raised(r) == r.kind = "raise"

\* a tensor returned by a library call, flattened
Tensor(s) == [kind |-> "tensor", t |-> s]

(***************************************************************************)
(* Radius-of-gyration potentials.                                          *)
(***************************************************************************)
\* the coordinate sums of a point list: its centroid times its length
RECURSIVE SumPoints(_)
SumPoints(P) ==
    IF P = <<>> THEN <<0, 0, 0>>
    ELSE LET r == SumPoints(Tail(P))
         IN  <<Head(P)[1] + r[1], Head(P)[2] + r[2], Head(P)[3] + r[3]>>

\* torch.mean(Ca, dim=0): the centroid S/n, kept as the pair <<S, n>>
mean(P) == <<SumPoints(P), Len(P)>>

\* torch.cdist(Ca, centroid)[i] squared, times n^2, for centroid S/n
CentroidSqDist(p, c) ==
    8 * ((c[2] * p[1] - c[1][1]) ^ 2 + (c[2] * p[2] - c[1][2]) ^ 2
         + (c[2] * p[3] - c[1][3]) ^ 2)

\* a variant without the floor: the distance itself
maximum_sq_unfloored(min_dist, dsq, n) == dsq

\* torch.maximum(min_dist, d) squared, times n^2: d >= 0, so the larger of
\* the two has the larger square unless min_dist is negative
maximum_sq(min_dist, dsq, n) ==
    IF min_dist < 0 THEN dsq ELSE Max(min_dist * min_dist * n * n, dsq)

RECURSIVE SumFloored(_, _, _)
SumFloored(P, c, min_dist) ==
    IF P = <<>> THEN 0
    ELSE maximum_sq(min_dist, CentroidSqDist(Head(P), c), c[2])
         + SumFloored(Tail(P), c, min_dist)

\* the radicand of rad_of_gyration = sqrt(sum(square(dgram)) / Ca.shape[0])
\* for the points Ca measured from `centroid`
rad_of_gyration_sq(Ca, centroid, min_dist) ==
    Rat(SumFloored(Ca, centroid, min_dist), centroid[2] * centroid[2] * Len(Ca))

\* the value -1 * weight * sqrt(q)
NegSqrt(w, q) == [kind |-> "neg_sqrt", weight |-> w, radicand |-> q]

\* the value -1 * weight * (sqrt(q1) + sqrt(q2)) / 2
NegAvgSqrt(w, q1, q2) ==
    [kind |-> "neg_avg_sqrt", weight |-> w, m1 |-> q1, m2 |-> q2]

monomer_ROG_init(weight, min_dist) ==
    [cls |-> "monomer_ROG", weight |-> weight, min_dist |-> min_dist]

monomer_ROG_compute(self, x) ==
    LET Ca == Slice(x, 0, shape0(x))
        centroid == mean(Ca)
    IN  NegSqrt(self.weight, rad_of_gyration_sq(Ca, centroid, self.min_dist))

dimer_ROG_init(binderlen, weight, min_dist) ==
    [cls |-> "dimer_ROG", binderlen |-> binderlen, weight |-> weight,
     min_dist |-> min_dist]

dimer_ROG_compute(self, x) ==
    LET Ca_m1 == Slice(x, 0, self.binderlen)
        Ca_m2 == Slice(x, self.binderlen, shape0(x))
        centroid_m1 == mean(Ca_m1)
        centroid_m2 == mean(Ca_m1)
    IN  NegAvgSqrt(self.weight,
                   rad_of_gyration_sq(Ca_m1, centroid_m1, self.min_dist),
                   rad_of_gyration_sq(Ca_m2, centroid_m2, self.min_dist))

(***************************************************************************)
(* The contact kernel and the contact-count potentials.                    *)
(***************************************************************************)
\* torch.cdist(A, B)[a, b]
cdist(A, B, a, b) == Sqrt(SqDist(A[a], B[b]))

\* a variant that puts 0 where the kernel is not a number
ncontacts_masked(d, d_0, r_0) ==
    IF Abs(d - d_0) = Abs(r_0) THEN Whole(0)
    ELSE RDiv(RSub(Whole(1), RPow(Rat(d - d_0, r_0), 6)),
              RSub(Whole(1), RPow(Rat(d - d_0, r_0), 12)))

\* (1 - ((d - d_0)/r_0)^6) / (1 - ((d - d_0)/r_0)^12), entrywise
ncontacts(d, d_0, r_0) ==
    LET divide_by_r_0 == Rat(d - d_0, r_0)
        numerator == RPow(divide_by_r_0, 6)
        denominator == RPow(divide_by_r_0, 12)
    IN  RDiv(RSub(Whole(1), numerator), RSub(Whole(1), denominator))

\* the row-major list of the index pairs of an |A| x |B| matrix
AllPairs(A, B) ==
    [k \in 1..(Len(A) * Len(B)) |->
        <<((k - 1) \div Len(B)) + 1, ((k - 1) % Len(B)) + 1>>]

\* ncontacts.sum() over the entries `pairs` of cdist(A, B), from the k-th on
RECURSIVE ncontacts_sum_from(_, _, _, _, _, _)
ncontacts_sum_from(A, B, pairs, d_0, r_0, k) ==
    IF k > Len(pairs) THEN Whole(0)
    ELSE RAdd(ncontacts(cdist(A, B, pairs[k][1], pairs[k][2]), d_0, r_0),
              ncontacts_sum_from(A, B, pairs, d_0, r_0, k + 1))

ncontacts_sum(A, B, pairs, d_0, r_0) ==
    ncontacts_sum_from(A, B, pairs, d_0, r_0, 1)

binder_ncontacts_init(binderlen, weight, r_0, d_0) ==
    [cls |-> "binder_ncontacts", binderlen |-> binderlen, weight |-> weight,
     r_0 |-> r_0, d_0 |-> d_0]

\* a variant that takes every unordered pair of distinct residues once
unordered_pairs(Ca) == SelectSeq(AllPairs(Ca, Ca), LAMBDA p : p[1] < p[2])

\* the entries of dgram that binder_ncontacts.sum() adds up
binder_pairs(Ca) == AllPairs(Ca, Ca)

binder_ncontacts_compute(self, x) ==
    LET Ca == Slice(x, 0, self.binderlen)
    IN  Num(RMul(Whole(self.weight),
                 ncontacts_sum(Ca, Ca, binder_pairs(Ca), self.d_0, self.r_0)))

interface_ncontacts_init(binderlen, weight, r_0, d_0) ==
    [cls |-> "interface_ncontacts", binderlen |-> binderlen, weight |-> weight,
     r_0 |-> r_0, d_0 |-> d_0]

\* the kernel summed over cdist(binder, target)
interface_ncontacts_compute(self, x) ==
    LET Ca_b == Slice(x, 0, self.binderlen)
        Ca_t == Slice(x, self.binderlen, shape0(x))
    IN  Num(RMul(Whole(self.weight),
                 ncontacts_sum(Ca_b, Ca_t, AllPairs(Ca_b, Ca_t),
                               self.d_0, self.r_0)))

monomer_contacts_init(weight, r_0, d_0) ==
    [cls |-> "monomer_contacts", weight |-> weight, r_0 |-> r_0, d_0 |-> d_0]

\* the kernel summed over cdist(Ca, Ca)
monomer_contacts_compute(self, x) ==
    LET Ca == Slice(x, 0, shape0(x))
    IN  Num(RMul(Whole(self.weight),
                 ncontacts_sum(Ca, Ca, AllPairs(Ca, Ca), self.d_0, self.r_0)))

(***************************************************************************)
(* Contact matrices.  An array is its shape and its entries in row-major   *)
(* order (what flatten() returns).                                         *)
(***************************************************************************)
Array(sh, f) == [shape |-> sh, flat |-> f]

\* contact_matrix[i, j] of a 2-dimensional array, indices from 0
At(cm, i, j) == cm.flat[i * cm.shape[2] + j + 1]

\* a variant that leaves out the symmetry assertion
asserts_without_symmetry(cm) ==
    /\ \A k \in 1..Len(cm.flat) : cm.flat[k] \in {-1, 0, 1}
    /\ Len(cm.shape) = 2
    /\ cm.shape[1] = cm.shape[2]

\* the assertions of olig_contacts.__init__, in the order of the code:
\* entries, number of dimensions, squareness, symmetry
contact_matrix_asserts(cm) ==
    /\ \A k \in 1..Len(cm.flat) : cm.flat[k] \in {-1, 0, 1}
    /\ Len(cm.shape) = 2
    /\ cm.shape[1] = cm.shape[2]
    /\ \A i \in 0..(cm.shape[1] - 1) : \A j \in 0..(cm.shape[2] - 1) :
          At(cm, i, j) = At(cm, j, i)

\* what a constructor call leaves: the object, or the exception it raised
Built(obj) == [exc |-> "", obj |-> obj]

None == [cls |-> "None"]

Failed(e) == [exc |-> e, obj |-> None]

olig_contacts_init(contact_matrix, weight_intra, weight_inter, r_0, d_0) ==
    IF ~contact_matrix_asserts(contact_matrix) THEN Failed("AssertionError")
    ELSE Built([cls |-> "olig_contacts", contact_matrix |-> contact_matrix,
                weight_intra |-> weight_intra, weight_inter |-> weight_inter,
                r_0 |-> r_0, d_0 |-> d_0,
                nchain |-> contact_matrix.shape[1]])

\* the running totals of a compute loop
Totals(a, b) == [kind |-> "totals", intra |-> a, inter |-> b]

\* a variant that does not scale the offset of chain i by the chain length
get_idx_unscaled(self, i, L) ==
    IF L % self.nchain # 0 THEN Raise("AssertionError")
    ELSE LET Lchain == L \div self.nchain
         IN  [kind |-> "idx", idx |-> [k \in 1..Lchain |-> i + k - 1]]

\* _get_idx(i, L): the indices of the residues of chain i
get_idx(self, i, L) ==
    IF L % self.nchain # 0 THEN Raise("AssertionError")
    ELSE LET Lchain == L \div self.nchain
         IN  [kind |-> "idx", idx |-> [k \in 1..Lchain |-> i * Lchain + k - 1]]

\* the guarded block of the double loop of olig_contacts.compute for one
\* (i, j): the totals intra_contacts and inter_contacts after it, or the
\* exception raised in it
olig_block(self, x, i, j, acc) ==
    LET idx_i == get_idx(self, i, shape0(x))
        idx_j == get_idx(self, j, shape0(x))
    IN  IF Raised(idx_i) THEN idx_i
        ELSE IF Raised(idx_j) THEN idx_j
        ELSE LET Ca_i == Take(x, idx_i.idx)
                 Ca_j == Take(x, idx_j.idx)
                 total == ncontacts_sum(Ca_i, Ca_j, AllPairs(Ca_i, Ca_j),
                                        self.d_0, self.r_0)
                 m == Whole(At(self.contact_matrix, i, j))
             IN  IF i = j
                 THEN Totals(RAdd(acc.intra, RDiv(RMul(total, m), Whole(2))),
                             acc.inter)
                 ELSE Totals(acc.intra, RAdd(acc.inter, RMul(total, m)))

\* a variant of the loop body that visits both orders of a chain pair
olig_pair_both_orders(self, x, i, j, acc) ==
    IF At(self.contact_matrix, i, j) # 0 THEN olig_block(self, x, i, j, acc)
    ELSE acc

\* a variant of the loop body that partitions the chains before it looks at
\* the matrix entry
olig_pair_partition_first(self, x, i, j, acc) ==
    IF Raised(get_idx(self, i, shape0(x))) THEN get_idx(self, i, shape0(x))
    ELSE IF (i <= j) /\ (At(self.contact_matrix, i, j) # 0)
    THEN olig_block(self, x, i, j, acc)
    ELSE acc

\* the body of the double loop of olig_contacts.compute for one (i, j)
olig_pair(self, x, i, j, acc) ==
    IF (i <= j) /\ (At(self.contact_matrix, i, j) # 0)
    THEN olig_block(self, x, i, j, acc)
    ELSE acc

\* for i in range(nchain): for j in range(nchain): ..., from step k = i*nchain + j
RECURSIVE olig_loop(_, _, _, _)
olig_loop(self, x, k, acc) ==
    IF k >= self.nchain * self.nchain THEN acc
    ELSE LET r == olig_pair(self, x, k \div self.nchain, k % self.nchain, acc)
         IN  IF Raised(r) THEN r ELSE olig_loop(self, x, k + 1, r)

olig_contacts_compute(self, x) ==
    LET r == olig_loop(self, x, 0, Totals(Whole(0), Whole(0)))
    IN  IF Raised(r) THEN r
        ELSE Num(RAdd(RMul(Whole(self.weight_intra), r.intra),
                      RMul(Whole(self.weight_inter), r.inter)))

(***************************************************************************)
(* External adapters.  The hydrogen-bond detector (pydssp) and the force   *)
(* field (madrax) are not part of the module: what they return for the     *)
(* chains of a call is drawn with the call, as the function `ext` from a   *)
(* list of chain numbers to the flattened tensor returned for them.        *)
(***************************************************************************)
RECURSIVE IntSum(_)
IntSum(s) == IF s = <<>> THEN 0 ELSE Head(s) + IntSum(Tail(s))

\* a try/except around `import pydssp`
get_bb_hbond_map(env, ext, chains) ==
    IF env["pydssp"] # "yes" THEN Raise("RuntimeError")
    ELSE Tensor(ext[chains])

hb_contacts_init(contact_matrix, weight_intra, weight_inter, mode) ==
    IF ~contact_matrix_asserts(contact_matrix) THEN Failed("AssertionError")
    ELSE Built([cls |-> "hb_contacts", contact_matrix |-> contact_matrix,
                weight_intra |-> weight_intra, weight_inter |-> weight_inter,
                mode |-> mode, nchain |-> contact_matrix.shape[1]])

\* hb_contacts._sum
hb_sum(self, tensor) ==
    IF self.mode = 0 THEN IntSum(tensor)
    ELSE IntSum(SelectSeq(tensor, LAMBDA e : e > 0))

\* the chains of the list comprehensions of compute, in their order:
\* [<<i>> for i in range(nchain)]
IntraChains(nchain) == [i \in 1..nchain |-> <<i - 1>>]

\* [<<i, j>> for i in range(nchain) for j in range(i + 1, nchain) if i != j]
RECURSIVE InterChainsFrom(_, _, _)
InterChainsFrom(nchain, i, j) ==
    IF i >= nchain THEN <<>>
    ELSE IF j >= nchain THEN InterChainsFrom(nchain, i + 1, i + 2)
    ELSE IF i # j THEN <<(<<i, j>>)>> \o InterChainsFrom(nchain, i, j + 1)
    ELSE InterChainsFrom(nchain, i, j + 1)

InterChains(nchain) == InterChainsFrom(nchain, 0, 1)

\* sum([self._sum(get_bb_hbond_map(xyz[self._get_idx(i, L), :4] ...)) for ...]):
\* every element takes the indices of its chains first, then calls the detector
RECURSIVE hb_total(_, _, _, _, _)
hb_total(self, L, env, ext, chains) ==
    IF chains = <<>> THEN Num(Whole(0))
    ELSE LET c == Head(chains)
             map == get_bb_hbond_map(env, ext, c)
         IN  IF \E k \in 1..Len(c) : Raised(get_idx(self, c[k], L))
             THEN Raise("AssertionError")
             ELSE IF Raised(map) THEN map
             ELSE LET rest == hb_total(self, L, env, ext, Tail(chains))
                  IN  IF Raised(rest) THEN rest
                      ELSE Num(RAdd(Whole(hb_sum(self, map.t)), rest.v))

\* The tensors of one compute call of hb_contacts.  A tensor is a buffer:
\* how it was made, and for every row whether its oxygen is a number (TRUE)
\* or NaN, when it was made and now.  Buffer 1 is xyz; the other columns of
\* a tensor are never written.
Buffer(by, rows) == [by |-> by, made |-> rows, now |-> rows]

\* xyz[idx, :4] for a tensor of indices idx: advanced indexing copies the
\* rows, and .contiguous() of the copy is the copy
index_rows(mem, t, idx) ==
    Append(mem, Buffer("index", [k \in 1..Len(idx) |-> mem[t].now[idx[k] + 1]]))

\* torch.cat([a, b], dim=0)
cat(mem, a, b) == Append(mem, Buffer("cat", mem[a].now \o mem[b].now))

\* xyz.clone()
clone(mem, t) == Append(mem, Buffer("clone", mem[t].now))

\* the write of line 714 landing in the tensor that was passed in
add_ideal_oxygen_in_place(mem, coords) ==
    IF \A k \in DOMAIN mem[coords].now : mem[coords].now[k] THEN mem
    ELSE [mem EXCEPT ![coords].now = [k \in DOMAIN @ |-> TRUE]]

\* add_ideal_oxygen(xyz): the memory after the call.  xyz_in is the clone,
\* the rows of mask get their ideal oxygen in xyz_in, and without a NaN
\* nothing is written
add_ideal_oxygen(mem, coords) ==
    CHOOSE after \in
        {IF \A k \in DOMAIN m[Len(m)].now : m[Len(m)].now[k] THEN m
         ELSE [m EXCEPT ![Len(m)].now = [k \in DOMAIN @ |-> TRUE]]
         : m \in {clone(mem, coords)}} : TRUE

\* the coordinates handed to get_bb_hbond_map for one list of chains: the
\* rows of its chain, or of its two chains concatenated
hb_coords(self, L, c, mem) ==
    IF Len(c) = 1 THEN index_rows(mem, 1, get_idx(self, c[1], L).idx)
    ELSE CHOOSE after \in
            {cat(m, Len(m) - 1, Len(m)) :
                m \in {index_rows(index_rows(mem, 1,
                                             get_idx(self, c[1], L).idx),
                                  1, get_idx(self, c[2], L).idx)}} : TRUE

\* the memory after the calls for a list of lists of chains; an exception
\* ends the call
RECURSIVE hb_memory(_, _, _, _, _)
hb_memory(self, L, env, chains, mem) ==
    IF chains = <<>> THEN mem
    ELSE IF \E k \in 1..Len(Head(chains)) :
                Raised(get_idx(self, Head(chains)[k], L))
    THEN mem
    ELSE CHOOSE after \in
            {IF env["pydssp"] # "yes" THEN m
             ELSE hb_memory(self, L, env, Tail(chains),
                            add_ideal_oxygen(m, Len(m)))
             : m \in {hb_coords(self, L, Head(chains), mem)}} : TRUE

\* the memory after hb_contacts.compute(xyz)
hb_contacts_memory(self, x, env) ==
    hb_memory(self, shape0(x), env,
              IntraChains(self.nchain) \o InterChains(self.nchain),
              <<Buffer("xyz", [k \in 1..shape0(x) |-> x.O[k - 1]])>>)

\* xyz as the call leaves it
hb_contacts_xyz(self, x, env) ==
    CHOOSE after \in
        {[x EXCEPT !.O = [i \in DOMAIN @ |-> m[1].now[i + 1]]]
         : m \in {hb_contacts_memory(self, x, env)}} : TRUE

hb_contacts_compute(self, x, env, ext) ==
    LET L == shape0(x)
        hb_intra == hb_total(self, L, env, ext, IntraChains(self.nchain))
        hb_inter == hb_total(self, L, env, ext, InterChains(self.nchain))
    IN  IF Raised(hb_intra) THEN hb_intra
        ELSE IF Raised(hb_inter) THEN hb_inter
        ELSE Num(RAdd(RMul(Whole(self.weight_intra), hb_intra.v),
                      RMul(Whole(self.weight_inter), hb_inter.v)))

\* a constructor that does not import the force field
madrax_energy_init_lazy(env, contact_matrix, weight_intra, weight_inter, clip) ==
    IF ~contact_matrix_asserts(contact_matrix) THEN Failed("AssertionError")
    ELSE Built([cls |-> "madrax_energy", contact_matrix |-> contact_matrix,
                weight_intra |-> weight_intra, weight_inter |-> weight_inter,
                clip |-> clip, nchain |-> contact_matrix.shape[1]])

\* madrax_energy.__init__ imports the force field before anything else
madrax_energy_init(env, contact_matrix, weight_intra, weight_inter, clip) ==
    IF env["madrax"] # "yes" THEN Failed("ImportError")
    ELSE IF ~contact_matrix_asserts(contact_matrix) THEN Failed("AssertionError")
    ELSE Built([cls |-> "madrax_energy", contact_matrix |-> contact_matrix,
                weight_intra |-> weight_intra, weight_inter |-> weight_inter,
                clip |-> clip, nchain |-> contact_matrix.shape[1]])

\* E.clamp_(min=-clip, max=clip), entrywise
clamp(e, clip) == Max(-clip, Min(clip, e))

\* get_madrax_energy: clip is None (<<>>) or <<c>>, and `if clip:` skips 0 too
get_madrax_energy(env, ext, chains, clip) ==
    IF env["madrax"] # "yes" THEN Raise("ImportError")
    ELSE LET E == ext[chains]
         IN  Tensor(IF clip # <<>> /\ clip[1] # 0
                    THEN [k \in 1..Len(E) |-> clamp(E[k], clip[1])]
                    ELSE E)

RECURSIVE madrax_total(_, _, _, _, _)
madrax_total(self, L, env, ext, chains) ==
    IF chains = <<>> THEN Num(Whole(0))
    ELSE LET c == Head(chains)
             E == get_madrax_energy(env, ext, c, self.clip)
         IN  IF \E k \in 1..Len(c) : Raised(get_idx(self, c[k], L))
             THEN Raise("AssertionError")
             ELSE IF Raised(E) THEN E
             ELSE LET rest == madrax_total(self, L, env, ext, Tail(chains))
                  IN  IF Raised(rest) THEN rest
                      ELSE Num(RAdd(Whole(IntSum(E.t)), rest.v))

madrax_energy_compute(self, x, env, ext) ==
    LET L == shape0(x)
        e_intra == madrax_total(self, L, env, ext, IntraChains(self.nchain))
        e_inter == madrax_total(self, L, env, ext, InterChains(self.nchain))
    IN  IF Raised(e_intra) THEN e_intra
        ELSE IF Raised(e_inter) THEN e_inter
        ELSE Num(RNeg(RAdd(RMul(Whole(self.weight_intra), e_intra.v),
                           RMul(Whole(self.weight_inter), e_inter.v))))

(***************************************************************************)
(* Rgs.__init__.  A Python list is an object: `is not` compares the        *)
(* identities of two objects, not their items.  An optional number is <<>> *)
(* (None) or <<v>>.                                                        *)
(***************************************************************************)
List(i, x) == [id |-> i, items |-> x]

is_not(a, b) == a.id # b.id

\* the assert of Rgs.__init__: self.target_Rgs is the first list the call
\* builds, the literal [None, None, None] of the assert the second
Rgs_assert(target_Rgs) == is_not(target_Rgs, List(2, <<(<<>>), <<>>, <<>>>>))

Rgs_init(contact_matrix, Rgx, Rgy, Rgz, diagonalise, weight) ==
    LET target_Rgs == List(1, <<Rgx, Rgy, Rgz>>)
    IN  IF ~Rgs_assert(target_Rgs) THEN Failed("AssertionError")
        ELSE Built([cls |-> "Rgs", contact_matrix |-> contact_matrix,
                    weight |-> weight, diagonalise |-> diagonalise,
                    target_Rgs |-> target_Rgs.items])

(***************************************************************************)
(* substrate_contacts.  The sampler assigns diffusion_mask, xyz_motif and  *)
(* motif_substrate_atoms to the object after construction.  A boolean mask *)
(* is a function on 0..L-1; an attribute that was never assigned is <<>>.  *)
(* The coordinate of atom a of row p of a tensor is the tag <<p, a>>: the  *)
(* frame is pure indexing, the numbers behind the tags play no part.       *)
(***************************************************************************)
substrate_contacts_init(weight, r_0, d_0) ==
    Built([cls |-> "substrate_contacts", weight |-> weight, r_0 |-> r_0,
           d_0 |-> d_0, motif_frame |-> <<>>, motif_mapping |-> <<>>,
           diffusion_mask |-> <<>>])

\* torch.where(mask)[0] / idx[mask]: the marked indices in increasing order
RECURSIVE where(_, _)
where(mask, i) ==
    IF i \notin DOMAIN mask THEN <<>>
    ELSE (IF mask[i] THEN <<i>> ELSE <<>>) \o where(mask, i + 1)

\* the sequences of n pairwise distinct elements of S
DistinctSeqs(S, n) == {s \in [1..n -> S] : \A a, b \in 1..n : a # b => s[a] # s[b]}

\* torch.multinomial(weights, num_samples) without replacement: everything a
\* call can return or raise.  It draws positions 0..len-1 of `weights` with
\* probability proportional to the weight.  All weights zero (or none) is an
\* error.  Fewer positive weights than samples breaks the documented
\* precondition: a build either raises, or returns the positive positions
\* followed by zero-weight ones.
multinomial(weights, num_samples) ==
    LET n == Len(weights)
        positive == {p \in 0..(n - 1) : weights[p + 1] > 0}
    IN  IF positive = {} THEN {Raise("RuntimeError")}
        ELSE IF Cardinality(positive) >= num_samples
        THEN {Tensor(s) : s \in DistinctSeqs(positive, num_samples)}
        ELSE {Raise("RuntimeError")} \cup
             {Tensor(s) : s \in {q \in DistinctSeqs(0..(n - 1), num_samples) :
                \A k \in 1..Cardinality(positive) : q[k] \in positive}}

\* the results torch.multinomial can give _grab_motif_residues: the residue
\* numbers of the motif are passed as the weights
grab_samples(self) ==
    LET idx == where(self.diffusion_mask, 0)
    IN  IF Len(idx) >= 4 THEN multinomial(idx, 4) ELSE multinomial(idx, 1)

\* a variant that keeps the frame of an earlier call
grab_motif_residues_once(self, rand_idx) ==
    IF self.motif_frame # <<>> THEN self
    ELSE IF Len(where(self.diffusion_mask, 0)) >= 4
    THEN [self EXCEPT !.motif_frame = [k \in 1..4 |-> <<rand_idx.t[k], 1>>],
                      !.motif_mapping = [k \in 1..4 |-> <<rand_idx.t[k], 1>>]]
    ELSE [self EXCEPT !.motif_frame = [k \in 1..4 |-> <<rand_idx.t[1], k - 1>>],
                      !.motif_mapping = [k \in 1..4 |-> <<rand_idx.t[1], k - 1>>]]

\* _grab_motif_residues for the drawn rand_idx: the object with motif_frame
\* and motif_mapping assigned
grab_motif_residues(self, rand_idx) ==
    IF Len(where(self.diffusion_mask, 0)) >= 4
    THEN [self EXCEPT !.motif_frame = [k \in 1..4 |-> <<rand_idx.t[k], 1>>],
                      !.motif_mapping = [k \in 1..4 |-> <<rand_idx.t[k], 1>>]]
    ELSE [self EXCEPT !.motif_frame = [k \in 1..4 |-> <<rand_idx.t[1], k - 1>>],
                      !.motif_mapping = [k \in 1..4 |-> <<rand_idx.t[1], k - 1>>]]

\* a variant that returns the mask as it is
mask_unexpanded(mask, n) == mask

\* mask_expand(mask, n)
mask_expand(mask, n) ==
    [j \in DOMAIN mask |->
        mask[j] \/ \E i \in DOMAIN mask : mask[i] /\ j \in (i - n)..(i + n)]

\* the value -weight * sum(all_energies), the energies summed over the
\* Calpha atoms of `residues`
NegEnergySum(w, Ca, frame) ==
    [kind |-> "neg_energy_sum", weight |-> w, residues |-> Ca,
     new_frame |-> frame]

\* the integer square root, by Newton's iteration from x
RECURSIVE isqrt_from(_, _)
isqrt_from(n, x) ==
    LET y == (x + n \div x) \div 2
    IN  IF y < x THEN isqrt_from(n, y) ELSE x

\* a starting point of the iteration that is no less than the root of n,
\* for n below 2^31
isqrt_start(n) == IF n >= 65536 THEN 46341 ELSE IF n >= 256 THEN 256 ELSE n

\* torch.sqrt of a number that is a perfect square, or NaN
sqrt(q) ==
    IF IsNaN(q) THEN NaN
    ELSE IF q[1] = 0 THEN Whole(0)
    ELSE Whole(isqrt_from(q[1], isqrt_start(q[1])))

\* the 0.01 of the assertion, in units of 0.005
Tolerance == 2

\* torch.sqrt(torch.sqrt(torch.sum(torch.square(a - b), dim=-1))) for the sum
\* of squares sum_sq.  The sums of compute are whole numbers in units of
\* 0.005^4, so the value is in units of 0.005.
reference_distance(sum_sq) == sqrt(sqrt(sum_sq))

\* abs(first_distance - second_distance) < 0.01; a comparison with NaN is False
distances_agree(first_distance, second_distance) ==
    /\ ~IsNaN(first_distance) /\ ~IsNaN(second_distance)
    /\ Abs(first_distance[1] - second_distance[1]) < Tolerance

\* compute: <<the object after the call, what the call returns or raises>>.
\* rand_idx is what torch.multinomial gave; sums are the sums of squares
\* between the first substrate atom and the first frame atom, before the
\* transform (in the motif) and after it (in xyz).
substrate_contacts_compute(self, x, rand_idx, sums) ==
    IF DOMAIN self.diffusion_mask = {} THEN <<self, Raise("AttributeError")>>
    ELSE IF Raised(rand_idx) THEN <<self, rand_idx>>
    ELSE LET grabbed == grab_motif_residues(self, rand_idx)
             motif == where(self.diffusion_mask, 0)
             res == [k \in 1..4 |-> grabbed.motif_mapping[k][1]]
             atoms == [k \in 1..4 |-> grabbed.motif_mapping[k][2]]
             \* xyz[self.diffusion_mask][res, atoms, :]
             new_frame == [k \in 1..4 |-> <<motif[res[k] + 1], atoms[k]>>]
             diffusion_mask == mask_expand(self.diffusion_mask, 1)
             Ca == {i \in DOMAIN diffusion_mask : ~diffusion_mask[i]}
             first_distance == reference_distance(sums[1])
             second_distance == reference_distance(sums[2])
         IN  IF shape0(x) # Cardinality(DOMAIN self.diffusion_mask)
             THEN <<grabbed, Raise("IndexError")>>
             ELSE IF ~distances_agree(first_distance, second_distance)
             THEN <<grabbed, Raise("AssertionError")>>
             ELSE <<grabbed, NegEnergySum(self.weight, Ca, new_frame)>>

(***************************************************************************)
(* z_profile.  The coordinates of this family are whole numbers of         *)
(* Angstrom: <<x, y, z>> with x^2 + y^2 a perfect square, so that every    *)
(* radius is a whole number.  A profile is a sequence of rows               *)
(* <<z, rmin, rmean, rmax>> of rationals.                                  *)
(***************************************************************************)
\* p > q; a comparison with NaN is False
RGt(p, q) == ~IsNaN(p) /\ ~IsNaN(q) /\ p[1] * q[2] > q[1] * p[2]

\* p <= q; a comparison with NaN is False
RLe(p, q) == ~IsNaN(p) /\ ~IsNaN(q) /\ p[1] * q[2] <= q[1] * p[2]

\* right=False: boundaries[i-1] < v <= boundaries[i]
bucketize_left(v, boundaries) ==
    Cardinality({k \in DOMAIN boundaries : RGt(Whole(v), boundaries[k])})

\* torch.bucketize(v, boundaries, right=True) for sorted boundaries: the
\* index i with boundaries[i-1] <= v < boundaries[i], counted from 0
bucketize(v, boundaries) ==
    Cardinality({k \in DOMAIN boundaries : RLe(boundaries[k], Whole(v))})

\* (coords[:, :2] * coords[:, :2]).sum(1).sqrt() of one row
radius(c) == sqrt(Whole(c[1] * c[1] + c[2] * c[2]))

\* entry i of torch.zeros(n).scatter_reduce(0, src, index, reduce,
\* include_self=False): the reduction of the src[k] with index[k] = i, and
\* the 0 of torch.zeros where there is none
scatter_reduce(src, index, i, reduce) ==
    LET sel == {k \in DOMAIN src : index[k] = i}
        vals == [k \in DOMAIN src |-> IF index[k] = i THEN src[k][1] ELSE 0]
    IN  IF sel = {} THEN Whole(0)
        ELSE IF reduce = "amin"
        THEN Whole(CHOOSE m \in {src[k][1] : k \in sel} :
                        \A k \in sel : m <= src[k][1])
        ELSE IF reduce = "amax"
        THEN Whole(CHOOSE m \in {src[k][1] : k \in sel} :
                        \A k \in sel : m >= src[k][1])
        ELSE Rat(IntSum(vals), Cardinality(sel))

\* the rows of the profile from the radii and the bucket indices
profile_rows(r, bin_idxs, z) ==
    [i \in DOMAIN z |->
        <<z[i], scatter_reduce(r, bin_idxs, i - 1, "amin"),
          scatter_reduce(r, bin_idxs, i - 1, "mean"),
          scatter_reduce(r, bin_idxs, i - 1, "amax")>>]

\* get_z_profile(coords, z) with z given, as compute calls it: the last
\* bucket (index len(z)) is cut off by [:-1].  r and bin_idxs are bound to
\* their values once
get_z_profile(coords, z) ==
    CHOOSE p \in {profile_rows(r, bin_idxs, z) :
                    r \in {[k \in DOMAIN coords |-> radius(coords[k])]},
                    bin_idxs \in {[k \in DOMAIN coords |->
                                      bucketize(coords[k][3], z)]}} : TRUE

\* pd.read_csv(csv).values as a float tensor: the cells of the file are
\* whole numbers, the tensor holds numbers
read_profile(csv) ==
    [i \in DOMAIN csv |-> [j \in DOMAIN csv[i] |-> Whole(csv[i][j])]]

z_profile_init(contact_matrix, profile_csv, cutoff, weight) ==
    Built([cls |-> "z_profile", contact_matrix |-> contact_matrix,
           weight |-> weight, target_profile |-> read_profile(profile_csv),
           cutoff |-> cutoff])

\* (current_profile[idx, 1:] - target_profile[idx, 1:]) ** 2, flattened,
\* from row i on
RECURSIVE squared_deviations(_, _, _, _)
squared_deviations(current, target, idx, i) ==
    IF i > Len(current) THEN <<>>
    ELSE LET d == [j \in 1..3 |-> RSub(current[i][j + 1], target[i][j + 1])]
             row == IF i \in idx THEN [j \in 1..3 |-> RMul(d[j], d[j])]
                    ELSE <<>>
         IN  row \o squared_deviations(current, target, idx, i + 1)

\* Python's truth of an optional number: None and 0 are false
truthy(o) == o # <<>> /\ o[1] # 0

\* the weighted penalty of a current profile
z_profile_score(self, current_profile) ==
    LET target == self.target_profile
        idx == {i \in DOMAIN current_profile :
                    RGt(current_profile[i][2], Whole(0))}
        deviations == squared_deviations(current_profile, target, idx, 1)
        above(d) == RGt(d, Whole(self.cutoff[1] * self.cutoff[1]))
        kept == IF truthy(self.cutoff) THEN SelectSeq(deviations, above)
                ELSE deviations
        potential == RNeg(RSum(kept))
    IN  Num(RMul(Whole(self.weight), potential))

z_profile_compute(self, x) ==
    LET coords == Slice(x, 0, shape0(x))
        z == [i \in DOMAIN self.target_profile |-> self.target_profile[i][1]]
    IN  CHOOSE v \in {z_profile_score(self, current_profile) :
                        current_profile \in {get_z_profile(coords, z)}} : TRUE

(***************************************************************************)
(* The registry.  A class is represented by the parameters of its          *)
(* constructor that have no default value.                                 *)
(***************************************************************************)
implemented_potentials ==
    [monomer_ROG |-> {},
     binder_ROG |-> {"binderlen"},
     dimer_ROG |-> {"binderlen"},
     binder_ncontacts |-> {"binderlen"},
     interface_ncontacts |-> {"binderlen"},
     monomer_contacts |-> {},
     olig_contacts |-> {"contact_matrix"},
     substrate_contacts |-> {},
     z_profile |-> {"contact_matrix", "profile_csv"},
     Rgs |-> {"contact_matrix"},
     hb_contacts |-> {"contact_matrix"},
     madrax_energy |-> {"contact_matrix"}]

require_binderlen ==
    {"binder_ROG", "binder_distance_ReLU", "binder_any_ReLU", "dimer_ROG",
     "binder_ncontacts", "interface_ncontacts"}

(***************************************************************************)
(* Inputs of the calls.                                                    *)
(***************************************************************************)
Weights == {1, 2}

\* <<weight_intra, weight_inter>>
WeightPairs == {<<1, 2>>, <<2, 3>>}

MinDists == {0, 4}

\* <<r_0, d_0>>: the defaults of binder_ncontacts, and a pair whose singular
\* distance d_0 + r_0 = 4 is a distance between sites
KernelParams == {<<8, 4>>, <<4, 0>>}

\* <<weight_intra, weight_inter, r_0, d_0>> of olig_contacts
OligParams == {<<2, 3, 8, 4>>, <<1, 2, 4, 0>>}

\* 2 is not a contact-matrix entry
EntryValues == {-1, 0, 1, 2}

\* the symmetric n x n arrays with entries in {-1, 0, 1}: one for every choice
\* of the entries u[i, j], i <= j
Symmetric(n) ==
    {Array(<<n, n>>,
           [k \in 1..(n * n) |-> u[Min((k - 1) \div n, (k - 1) % n),
                                   Max((k - 1) \div n, (k - 1) % n)]]) :
        u \in [{p \in (0..(n - 1)) \X (0..(n - 1)) : p[1] <= p[2]} -> {-1, 0, 1}]}

\* the same entries under other shapes: 1-dimensional, one row, 3-dimensional
Shapes(cm) ==
    {<<Len(cm.flat)>>, <<1, Len(cm.flat)>>, cm.shape \o <<1>>}

\* the arrays a caller may pass as contact_matrix: every symmetric array up
\* to MaxChain chains, with any one entry replaced, or under another shape
ContactInputs ==
    LET symmetric == UNION {Symmetric(n) : n \in 0..MaxChain}
    IN  symmetric
        \cup UNION {{[cm EXCEPT !.flat[k] = v] :
                        k \in 1..Len(cm.flat), v \in EntryValues} : cm \in symmetric}
        \cup UNION {{[cm EXCEPT !.shape = sh] : sh \in Shapes(cm)} : cm \in symmetric}

\* None or a target radius
Optional == {<<>>, <<3>>}

\* None or a clip value
Clips == {<<>>, <<2>>}

\* what the external library returns for one list of chains
ExtOut == {<<0, 0>>, <<-1, 3>>}

\* the structure of L residues at one point: the adapters and the substrate
\* potential read the numbers of a structure only through the external
\* library and through the sums of squares drawn with the call
Coincident(L) == [Ca |-> [i \in 0..(L - 1) |-> Origin]]

\* structures in which the oxygen of some residues is NaN: O[i] tells
\* whether the oxygen of residue i is a number
OxygenStructures ==
    UNION {{[Ca |-> Coincident(L).Ca, O |-> o] : o \in [0..(L - 1) -> BOOLEAN]}
           : L \in 1..MaxL}

\* <<sum of squares before the transform, sum of squares after it>>, in
\* units of 0.005^4: r^4 makes the distance r^2 * 0.005^2 and its root
\* r * 0.005.  Distances 1 and 1; 1 and 1.010025; 1 and 1.0201
SumPairs ==
    {<<Whole(200 ^ 4), Whole(200 ^ 4)>>, <<Whole(200 ^ 4), Whole(201 ^ 4)>>,
     <<Whole(200 ^ 4), Whole(202 ^ 4)>>}

Masks == UNION {[0..(L - 1) -> BOOLEAN] : L \in 1..MaxMask}

\* None, 0 or a cutoff of 1 Angstrom
Cutoffs == {<<>>, <<0>>, <<1>>}

\* the rows {z, rmin, rmean, rmax} of the profile files
CsvProfiles ==
    {<<(<<1, 5, 5, 5>>), <<2, 4, 4, 4>>>>,
     <<(<<1, 3, 4, 5>>), <<2, 4, 4, 4>>>>,
     <<(<<1, 2, 4, 7>>), <<2, 0, 0, 0>>>>,
     <<(<<2, 3, 4, 5>>)>>}

\* a site on the axis and sites of radius 5 and 3 at height 0, and a site of
\* radius 4 at height 1
ProfileSites == {<<0, 0, 0>>, <<3, 4, 0>>, <<3, 0, 0>>, <<0, 4, 1>>}

ProfileStructures ==
    UNION {{[Ca |-> f] : f \in [0..(L - 1) -> ProfileSites]} : L \in 1..MaxL}

(***************************************************************************)
(* The state machine.                                                      *)
(***************************************************************************)
Packages == {"pydssp", "madrax"}

\* `installed` once an import statement for package p has run
Imported(p) ==
    IF installed[p] # "unknown" THEN {installed}
    ELSE {[installed EXCEPT ![p] = a] : a \in {"yes", "no"}}

InitCall(c, a, e) ==
    [op |-> "init", cls |-> c, args |-> a, exc |-> e, ext |-> <<>>]

ComputeCall(c, e) ==
    [op |-> "compute", cls |-> c, args |-> <<>>, exc |-> "", ext |-> e]

Init ==
    /\ installed = [p \in Packages |-> "unknown"]
    /\ pot = None
    /\ call = [op |-> "start", cls |-> "None", args |-> <<>>, exc |-> "",
               ext |-> <<>>]
    /\ xyz = NoXyz
    /\ ret = NoRet

\* the slot is empty and no call was made yet
Start == call.op = "start"

\* a constructor call: the slot holds the new object, or None if the
\* constructor raised
Constructed(c, args, r) ==
    /\ pot' = r.obj
    /\ call' = InitCall(c, args, r.exc)
    /\ xyz' = NoXyz
    /\ ret' = NoRet

\* a compute call on the current structure
Computed(c, ext, r) ==
    /\ call' = ComputeCall(c, ext)
    /\ ret' = r
    /\ UNCHANGED xyz

New_monomer_ROG ==
    /\ Start
    /\ \E weight \in Weights, min_dist \in MinDists :
            /\ Constructed("monomer_ROG", <<weight, min_dist>>,
                           Built(monomer_ROG_init(weight, min_dist)))
            /\ UNCHANGED installed

New_dimer_ROG ==
    /\ Start
    /\ \E binderlen \in 1..MaxL, weight \in Weights, min_dist \in MinDists :
            /\ Constructed("dimer_ROG", <<binderlen, weight, min_dist>>,
                           Built(dimer_ROG_init(binderlen, weight, min_dist)))
            /\ UNCHANGED installed

New_binder_ncontacts ==
    /\ Start
    /\ \E binderlen \in 1..MaxL, weight \in Weights, k \in KernelParams :
            /\ Constructed("binder_ncontacts", <<binderlen, weight, k[1], k[2]>>,
                           Built(binder_ncontacts_init(binderlen, weight, k[1], k[2])))
            /\ UNCHANGED installed

New_interface_ncontacts ==
    /\ Start
    /\ \E binderlen \in 1..MaxL, weight \in Weights, k \in KernelParams :
            /\ Constructed("interface_ncontacts", <<binderlen, weight, k[1], k[2]>>,
                           Built(interface_ncontacts_init(binderlen, weight,
                                                          k[1], k[2])))
            /\ UNCHANGED installed

New_monomer_contacts ==
    /\ Start
    /\ \E weight \in Weights, k \in KernelParams :
            /\ Constructed("monomer_contacts", <<weight, k[1], k[2]>>,
                           Built(monomer_contacts_init(weight, k[1], k[2])))
            /\ UNCHANGED installed

New_olig_contacts ==
    /\ Start
    /\ \E cm \in ContactInputs, a \in OligParams :
            /\ Constructed("olig_contacts", <<cm>>,
                           olig_contacts_init(cm, a[1], a[2], a[3], a[4]))
            /\ UNCHANGED installed

New_hb_contacts ==
    /\ Start
    /\ \E cm \in ContactInputs, w \in WeightPairs, mode \in {0, 1} :
            /\ Constructed("hb_contacts", <<cm>>,
                           hb_contacts_init(cm, w[1], w[2], mode))
            /\ UNCHANGED installed

New_madrax_energy ==
    /\ Start
    /\ \E cm \in ContactInputs, w \in WeightPairs, clip \in Clips :
            \E env \in Imported("madrax") :
                /\ Constructed("madrax_energy", <<cm>>,
                               madrax_energy_init(env, cm, w[1], w[2], clip))
                /\ installed' = env

New_Rgs ==
    /\ Start
    /\ \E Rgx \in Optional, Rgy \in Optional, Rgz \in Optional,
           diagonalise \in BOOLEAN, weight \in Weights :
            /\ Constructed("Rgs", <<Rgx, Rgy, Rgz>>,
                           Rgs_init(Array(<<0, 0>>, <<>>), Rgx, Rgy, Rgz,
                                    diagonalise, weight))
            /\ UNCHANGED installed

New_z_profile ==
    /\ Start
    /\ \E profile_csv \in CsvProfiles, cutoff \in Cutoffs, weight \in Weights :
            /\ Constructed("z_profile", <<cutoff, weight>>,
                           z_profile_init(Array(<<0, 0>>, <<>>), profile_csv,
                                          cutoff, weight))
            /\ UNCHANGED installed

New_substrate_contacts ==
    /\ Start
    /\ \E weight \in Weights :
            /\ Constructed("substrate_contacts", <<weight>>,
                           substrate_contacts_init(weight, 8, 2))
            /\ UNCHANGED installed

\* the sampler assigns the motif attributes of a new substrate_contacts object
Assign_motif ==
    /\ pot.cls = "substrate_contacts"
    /\ call.op = "init"
    /\ \E mask \in Masks :
        /\ pot' = [pot EXCEPT !.diffusion_mask = mask]
        /\ call' = [op |-> "assign", cls |-> pot.cls, args |-> <<>>,
                    exc |-> "", ext |-> <<>>]
        /\ UNCHANGED <<installed, xyz, ret>>

\* the structures the sampler may hand to the object of the slot
Inputs(self) ==
    IF self.cls \in {"monomer_ROG", "dimer_ROG", "binder_ncontacts",
                     "interface_ncontacts", "monomer_contacts", "olig_contacts"}
    THEN Structures
    ELSE IF self.cls = "hb_contacts"
    THEN OxygenStructures
    ELSE IF self.cls = "madrax_energy"
    THEN {Coincident(L) : L \in 1..MaxL}
    ELSE IF self.cls = "substrate_contacts"
    THEN {Coincident(L) : L \in {Cardinality(DOMAIN self.diffusion_mask)} \ {0}}
    ELSE IF self.cls = "z_profile"
    THEN ProfileStructures
    ELSE {}

\* the sampler draws the structure of the trajectory
sample_init ==
    /\ xyz = NoXyz
    /\ \E x \in Inputs(pot) :
        /\ xyz' = x
        /\ call' = [op |-> "sample", cls |-> pot.cls, args |-> <<>>,
                    exc |-> "", ext |-> <<>>]
        /\ UNCHANGED <<installed, pot, ret>>

Compute_monomer_ROG ==
    /\ pot.cls = "monomer_ROG" /\ xyz # NoXyz
    /\ Computed(pot.cls, <<>>, monomer_ROG_compute(pot, xyz))
    /\ UNCHANGED <<installed, pot>>

Compute_dimer_ROG ==
    /\ pot.cls = "dimer_ROG" /\ xyz # NoXyz
    /\ Computed(pot.cls, <<>>, dimer_ROG_compute(pot, xyz))
    /\ UNCHANGED <<installed, pot>>

Compute_binder_ncontacts ==
    /\ pot.cls = "binder_ncontacts" /\ xyz # NoXyz
    /\ Computed(pot.cls, <<>>, binder_ncontacts_compute(pot, xyz))
    /\ UNCHANGED <<installed, pot>>

Compute_interface_ncontacts ==
    /\ pot.cls = "interface_ncontacts" /\ xyz # NoXyz
    /\ Computed(pot.cls, <<>>, interface_ncontacts_compute(pot, xyz))
    /\ UNCHANGED <<installed, pot>>

Compute_monomer_contacts ==
    /\ pot.cls = "monomer_contacts" /\ xyz # NoXyz
    /\ Computed(pot.cls, <<>>, monomer_contacts_compute(pot, xyz))
    /\ UNCHANGED <<installed, pot>>

Compute_olig_contacts ==
    /\ pot.cls = "olig_contacts" /\ xyz # NoXyz
    /\ Computed(pot.cls, <<>>, olig_contacts_compute(pot, xyz))
    /\ UNCHANGED <<installed, pot>>

\* the lists of chains the external library is called for
ChainLists(nchain) ==
    {IntraChains(nchain)[k] : k \in 1..nchain}
    \cup {InterChains(nchain)[k] : k \in 1..Len(InterChains(nchain))}

Compute_hb_contacts ==
    /\ pot.cls = "hb_contacts" /\ xyz # NoXyz
    /\ \E env \in Imported("pydssp"), ext \in [ChainLists(pot.nchain) -> ExtOut] :
        /\ call' = ComputeCall(pot.cls, ext)
        /\ ret' = hb_contacts_compute(pot, xyz, env, ext)
        /\ xyz' = hb_contacts_xyz(pot, xyz, env)
        /\ installed' = env
    /\ UNCHANGED pot

Compute_madrax_energy ==
    /\ pot.cls = "madrax_energy" /\ xyz # NoXyz
    /\ \E ext \in [ChainLists(pot.nchain) -> ExtOut] :
        Computed(pot.cls, ext, madrax_energy_compute(pot, xyz, installed, ext))
    /\ UNCHANGED <<installed, pot>>

Compute_substrate_contacts ==
    /\ pot.cls = "substrate_contacts" /\ xyz # NoXyz
    /\ \E sums \in SumPairs, rand_idx \in grab_samples(pot) :
        LET r == substrate_contacts_compute(pot, xyz, rand_idx, sums)
        IN  /\ pot' = r[1]
            /\ Computed(pot.cls, [rand_idx |-> rand_idx, sums |-> sums],
                        r[2])
    /\ UNCHANGED installed

Compute_z_profile ==
    /\ pot.cls = "z_profile" /\ xyz # NoXyz
    /\ Computed(pot.cls, <<>>, z_profile_compute(pot, xyz))
    /\ UNCHANGED <<installed, pot>>

Next ==
    \/ New_monomer_ROG
    \/ New_dimer_ROG
    \/ New_binder_ncontacts
    \/ New_interface_ncontacts
    \/ New_monomer_contacts
    \/ New_olig_contacts
    \/ New_hb_contacts
    \/ New_madrax_energy
    \/ New_Rgs
    \/ New_substrate_contacts
    \/ New_z_profile
    \/ Assign_motif
    \/ sample_init
    \/ Compute_monomer_ROG
    \/ Compute_dimer_ROG
    \/ Compute_binder_ncontacts
    \/ Compute_interface_ncontacts
    \/ Compute_monomer_contacts
    \/ Compute_olig_contacts
    \/ Compute_hb_contacts
    \/ Compute_madrax_energy
    \/ Compute_substrate_contacts
    \/ Compute_z_profile

Spec == Init /\ [][Next]_vars

(***************************************************************************)
(* The same life with the slot given to one family of potentials.          *)
(***************************************************************************)
\* the constructor calls alone
NextInit ==
    \/ New_monomer_ROG
    \/ New_dimer_ROG
    \/ New_binder_ncontacts
    \/ New_interface_ncontacts
    \/ New_monomer_contacts
    \/ New_olig_contacts
    \/ New_hb_contacts
    \/ New_madrax_energy
    \/ New_Rgs
    \/ New_substrate_contacts
    \/ New_z_profile

SpecInit == Init /\ [][NextInit]_vars

NextROG ==
    \/ New_monomer_ROG
    \/ New_dimer_ROG
    \/ sample_init
    \/ Compute_monomer_ROG
    \/ Compute_dimer_ROG

SpecROG == Init /\ [][NextROG]_vars

NextContacts ==
    \/ New_binder_ncontacts
    \/ New_interface_ncontacts
    \/ New_monomer_contacts
    \/ New_olig_contacts
    \/ sample_init
    \/ Compute_binder_ncontacts
    \/ Compute_interface_ncontacts
    \/ Compute_monomer_contacts
    \/ Compute_olig_contacts

SpecContacts == Init /\ [][NextContacts]_vars

NextAdapters ==
    \/ New_hb_contacts
    \/ New_madrax_energy
    \/ sample_init
    \/ Compute_hb_contacts
    \/ Compute_madrax_energy

SpecAdapters == Init /\ [][NextAdapters]_vars

NextSubstrate ==
    \/ New_substrate_contacts
    \/ Assign_motif
    \/ sample_init
    \/ Compute_substrate_contacts

SpecSubstrate == Init /\ [][NextSubstrate]_vars

\* hb_contacts alone, with every pair of chains in contact and a detector
\* that finds no hydrogen bond: neither the entries of the matrix nor the
\* detector's answer reach a tensor of the call
NextOxygen ==
    \/ New_hb_contacts /\ pot' # None
                       /\ \A k \in DOMAIN pot'.contact_matrix.flat :
                            pot'.contact_matrix.flat[k] = 1
    \/ sample_init
    \/ Compute_hb_contacts /\ \A c \in DOMAIN call'.ext :
                                call'.ext[c] = <<0, 0>>

SpecOxygen == Init /\ [][NextOxygen]_vars

\* the two adapters with every pair of chains in contact and libraries that
\* return zeros: an import depends on neither
NextImports ==
    \/ New_hb_contacts /\ \A k \in DOMAIN call'.args[1].flat :
                            call'.args[1].flat[k] = 1
    \/ New_madrax_energy /\ \A k \in DOMAIN call'.args[1].flat :
                              call'.args[1].flat[k] = 1
    \/ sample_init
    \/ Compute_hb_contacts /\ \A c \in DOMAIN call'.ext :
                                call'.ext[c] = <<0, 0>>
    \/ Compute_madrax_energy /\ \A c \in DOMAIN call'.ext :
                                  call'.ext[c] = <<0, 0>>

SpecImports == Init /\ [][NextImports]_vars

NextProfile ==
    \/ New_z_profile
    \/ sample_init
    \/ Compute_z_profile

SpecProfile == Init /\ [][NextProfile]_vars

(***************************************************************************)
(* Properties.  A constructor call is judged in the state it leaves        *)
(* (call.op = "init"), a compute call in the state it leaves               *)
(* (call.op = "compute").                                                  *)
(***************************************************************************)
\* a 2-dimensional, square, symmetric array with entries in {-1, 0, 1}
WellFormed(cm) ==
    /\ Len(cm.shape) = 2
    /\ cm.shape[1] = cm.shape[2]
    /\ \A k \in 1..Len(cm.flat) : cm.flat[k] \in {-1, 0, 1}
    /\ \A i, j \in 0..(cm.shape[1] - 1) : At(cm, i, j) = At(cm, j, i)

MatrixInit ==
    /\ call.op = "init"
    /\ call.cls \in {"olig_contacts", "hb_contacts", "madrax_energy"}

\* the constructor took the matrix of the call if it is well formed, and
\* raised an assertion and left no object if it is not
Validated ==
    IF WellFormed(call.args[1])
    THEN /\ call.exc = ""
         /\ pot.cls = call.cls
         /\ pot.contact_matrix = call.args[1]
         /\ pot.nchain = call.args[1].shape[1]
    ELSE call.exc = "AssertionError" /\ pot = None

\* C1 as stated: the constructors of olig_contacts, hb_contacts and
\* madrax_energy reject every contact matrix that is not 2-dimensional,
\* square, symmetric and with entries in {-1, 0, 1} with an assertion and
\* leave no object, and accept every other matrix with nchain its dimension.
C1_AsStated == MatrixInit => Validated

\* C1: the statement holds for olig_contacts and hb_contacts, and for
\* madrax_energy where the madrax package can be imported; where it cannot,
\* the constructor of madrax_energy raises ImportError for every matrix,
\* before it looks at the matrix.
C1_Validation ==
    MatrixInit =>
        IF call.cls = "madrax_energy" /\ installed["madrax"] # "yes"
        THEN call.exc = "ImportError" /\ pot = None
        ELSE Validated

\* madrax_energy, with madrax importable, rejected an asymmetric 2 x 2 matrix
C1_Witness ==
    /\ call.op = "init" /\ call.cls = "madrax_energy"
    /\ call.args[1] = Array(<<2, 2>>, <<0, 1, -1, 0>>)
    /\ call.exc = "AssertionError" /\ pot = None

\* the residues of chain i of L residues in n chains of equal length
Segment(i, L, n) == [k \in 1..(L \div n) |-> i * (L \div n) + k - 1]

\* the kernel contact sum over segment i x segment j
SegmentContacts(self, x, i, j) ==
    LET A == Take(x, Segment(i, shape0(x), self.nchain))
        B == Take(x, Segment(j, shape0(x), self.nchain))
    IN  ncontacts_sum(A, B, AllPairs(A, B), self.d_0, self.r_0)

\* the chain pairs <<i, j>> with i <= j, each once
ChainPairs(n) ==
    SelectSeq([k \in 1..(n * n) |-> <<(k - 1) \div n, (k - 1) % n>>],
              LAMBDA p : p[1] <= p[2])

SumOver(pairs, T(_)) == RSum([k \in 1..Len(pairs) |-> T(pairs[k])])

\* half the contact sum of every same-chain pair with a nonzero entry,
\* times the entry if `signed`
IntraTotal(self, x, signed) ==
    SumOver(ChainPairs(self.nchain),
            LAMBDA p :
                IF p[1] = p[2] /\ At(self.contact_matrix, p[1], p[2]) # 0
                THEN RDiv(RMul(Whole(IF signed
                                     THEN At(self.contact_matrix, p[1], p[2])
                                     ELSE 1),
                               SegmentContacts(self, x, p[1], p[2])),
                          Whole(2))
                ELSE Whole(0))

\* the contact sum of every off-diagonal pair with a nonzero entry, times
\* the entry
InterTotal(self, x) ==
    SumOver(ChainPairs(self.nchain),
            LAMBDA p :
                IF p[1] # p[2] /\ At(self.contact_matrix, p[1], p[2]) # 0
                THEN RMul(Whole(At(self.contact_matrix, p[1], p[2])),
                          SegmentContacts(self, x, p[1], p[2]))
                ELSE Whole(0))

OligValue(self, x, signed) ==
    Num(RAdd(RMul(Whole(self.weight_intra), IntraTotal(self, x, signed)),
             RMul(Whole(self.weight_inter), InterTotal(self, x))))

OligCall == call.op = "compute" /\ call.cls = "olig_contacts"

Divisible == pot.nchain > 0 /\ shape0(xyz) % pot.nchain = 0

\* C2 as stated: for L divisible by nchain, olig_contacts.compute returns
\* weight_intra*intra + weight_inter*inter, where a same-chain pair with a
\* nonzero entry adds half of its contact sum to intra, an off-diagonal pair
\* (visited once, i < j) adds its contact sum times M[i,j] to inter, and
\* pairs with entry 0 add nothing.
C2_AsStated == (OligCall /\ Divisible) => ret = OligValue(pot, xyz, FALSE)

\* C2: as stated, except that a same-chain pair adds half of its contact
\* sum times its matrix entry M[i,i]: a diagonal entry of -1 subtracts.
C2_Aggregation == (OligCall /\ Divisible) => ret = OligValue(pot, xyz, TRUE)

\* two chains of two residues, a repulsive first chain, and a number returned
C2_Witness ==
    /\ OligCall
    /\ pot.contact_matrix = Array(<<2, 2>>, <<-1, 1, 1, 1>>)
    /\ shape0(xyz) = 4 /\ xyz.Ca[1] # Origin /\ xyz.Ca[2] # xyz.Ca[3]
    /\ ret.kind = "num" /\ ~IsNaN(ret.v) /\ ret.v # Whole(0)

\* the score compute adds up for one list of chains from what the external
\* library returned
Score(self, chains) ==
    IF self.cls = "hb_contacts" THEN hb_sum(self, call.ext[chains])
    ELSE IntSum(get_madrax_energy(installed, call.ext, chains, self.clip).t)

\* the matrix entry of a chain <<i>> or a chain pair <<i, j>>
Entry(self, chains) ==
    At(self.contact_matrix, chains[1], chains[Len(chains)])

SignedTotal(self, chains) ==
    RSum([k \in 1..Len(chains) |->
            Whole(Entry(self, chains[k]) * Score(self, chains[k]))])

SignedValue(self) ==
    LET v == RAdd(RMul(Whole(self.weight_intra),
                       SignedTotal(self, IntraChains(self.nchain))),
                  RMul(Whole(self.weight_inter),
                       SignedTotal(self, InterChains(self.nchain))))
    IN  IF self.cls = "madrax_energy" THEN RNeg(v) ELSE v

AdapterCall ==
    call.op = "compute" /\ call.cls \in {"hb_contacts", "madrax_energy"}

\* C3 as stated: the number hb_contacts.compute or madrax_energy.compute
\* returns is the sum of the scores of the chains and chain pairs, each
\* times its contact-matrix entry (an entry of 0 contributes nothing, a
\* nonzero entry gives the sign), so that an all-zero matrix gives 0.
C3_AsStated == (AdapterCall /\ ret.kind = "num") => ret.v = SignedValue(pot)

RgsInit == call.op = "init" /\ call.cls = "Rgs"

\* C4 as stated: Rgs(Rgx, Rgy, Rgz) with all three targets None raises an
\* assertion and leaves no object; with at least one target set it succeeds.
C4_AsStated ==
    RgsInit =>
        IF call.args = <<(<<>>), <<>>, <<>>>>
        THEN call.exc = "AssertionError" /\ pot = None
        ELSE call.exc = "" /\ pot.cls = "Rgs"

DimerCall == call.op = "compute" /\ call.cls = "dimer_ROG"

\* C5 as stated: dimer_ROG.compute returns -weight times the average of the
\* floored radii of gyration of residues [0, binderlen) and [binderlen, L),
\* each chain measured from its own centroid.
C5_AsStated ==
    DimerCall =>
        LET chain1 == Slice(xyz, 0, pot.binderlen)
            chain2 == Slice(xyz, pot.binderlen, shape0(xyz))
        IN  ret = NegAvgSqrt(pot.weight,
                     rad_of_gyration_sq(chain1, mean(chain1), pot.min_dist),
                     rad_of_gyration_sq(chain2, mean(chain2), pot.min_dist))

AllZero(cm) == \A k \in 1..Len(cm.flat) : cm.flat[k] = 0

\* C6: olig_contacts.compute with an all-zero contact matrix returns 0 for
\* every structure and every nchain, also where nchain does not divide L.
C6_ZeroMatrix ==
    (OligCall /\ AllZero(pot.contact_matrix)) => ret = Num(Whole(0))

\* two chains, three residues, an all-zero matrix, and 0 returned
C6_Witness ==
    /\ OligCall /\ AllZero(pot.contact_matrix)
    /\ pot.nchain = 2 /\ shape0(xyz) = 3
    /\ ret = Num(Whole(0))

MonomerCall == call.op = "compute" /\ call.cls = "monomer_ROG"

Coinciding(x) == \A i \in DOMAIN x.Ca : x.Ca[i] = x.Ca[0]

\* C7: for min_dist >= 0, monomer_ROG.compute on L >= 1 coinciding Calpha
\* points returns -weight * sqrt(min_dist^2), that is -weight * min_dist.
C7_Floor ==
    (MonomerCall /\ Coinciding(xyz) /\ pot.min_dist >= 0) =>
        ret = NegSqrt(pot.weight, Whole(pot.min_dist * pot.min_dist))

\* three coinciding points and a floor of 4
C7_Witness ==
    /\ MonomerCall /\ Coinciding(xyz) /\ shape0(xyz) = 3
    /\ pot.min_dist = 4 /\ pot.weight = 2
    /\ ret = NegSqrt(2, Whole(16))

\* kernel(d) = (1 - ((d - d_0)/r_0)^6) / (1 - ((d - d_0)/r_0)^12)
kernel(d, d_0, r_0) ==
    RDiv(RSub(Whole(1), RPow(Rat(d - d_0, r_0), 6)),
         RSub(Whole(1), RPow(Rat(d - d_0, r_0), 12)))

\* three points, each 4 Angstrom from the other two
Triangle(P) ==
    Len(P) = 3 /\ \A a, b \in 1..3 : a # b => SqDist(P[a], P[b]) = 16

TriangleCall ==
    /\ call.op = "compute" /\ call.cls = "binder_ncontacts"
    /\ pot.binderlen = 3 /\ pot.r_0 = 8 /\ pot.d_0 = 4
    /\ Triangle(Slice(xyz, 0, 3))

\* C8 as stated: binder_ncontacts.compute with binderlen = 3, r_0 = 8,
\* d_0 = 4 on an equilateral triangle of side 4 returns weight * 3 * kernel(4).
C8_AsStated ==
    TriangleCall => ret = Num(RMul(Whole(pot.weight * 3), kernel(4, 4, 8)))

\* C8: in that scenario binder_ncontacts.compute returns
\* weight * (6 * kernel(4) + 3 * kernel(0)): the kernel summed over all nine
\* entries of the 3 x 3 distance matrix, each pair of residues in both
\* orders and each residue with itself.
C8_Triangle ==
    TriangleCall =>
        ret = Num(RMul(Whole(pot.weight),
                       RAdd(RMul(Whole(6), kernel(4, 4, 8)),
                            RMul(Whole(3), kernel(0, 4, 8)))))

\* the triangle scored with weight 2: 2 * (6 + 3 * 64/65)
C8_Witness == TriangleCall /\ pot.weight = 2 /\ ret = Num(<<1164, 65>>)

SubstrateCall == call.op = "compute" /\ call.cls = "substrate_contacts"

\* the residues the diffusion mask marks as motif, in increasing order
Motif == where(pot.diffusion_mask, 0)

\* C9 as stated: every call of substrate_contacts.compute samples a frame;
\* with at least 4 motif residues (residue 0 may be one of them) it is the
\* Calpha atoms of 4 pairwise distinct motif residues, with fewer it is
\* atoms 0..3 of one motif residue; entry k of motif_frame is the coordinate
\* of the (residue, atom) that entry k of motif_mapping records.
C9_AsStated ==
    (SubstrateCall /\ Len(Motif) >= 1) =>
        /\ call.ext.rand_idx.kind = "tensor"
        /\ Len(pot.motif_frame) = 4
        /\ IF Len(Motif) >= 4
           THEN /\ \A k \in 1..4 : /\ pot.motif_frame[k][1] \in 0..(Len(Motif) - 1)
                                    /\ pot.motif_frame[k][2] = 1
                /\ \A a, b \in 1..4 :
                      a # b => pot.motif_frame[a][1] # pot.motif_frame[b][1]
           ELSE \E r \in 0..(Len(Motif) - 1) :
                    \A k \in 1..4 : pot.motif_frame[k] = <<r, k - 1>>
        /\ \A k \in 1..4 : pot.motif_frame[k] = pot.motif_mapping[k]

\* the residues whose Calpha entered the energies of the call
Contributing == ret.residues

\* C10 as stated: the residues that contribute to the energies are exactly
\* those the diffusion mask does not mark as motif.
C10_AsStated ==
    (SubstrateCall /\ ret.kind = "neg_energy_sum") =>
        Contributing = {i \in DOMAIN pot.diffusion_mask : ~pot.diffusion_mask[i]}

\* C10: a residue contributes if and only if the mask marks neither it nor
\* a residue next to it in the sequence (index i - 1 or i + 1) as motif.
C10_Complement ==
    (SubstrateCall /\ ret.kind = "neg_energy_sum") =>
        Contributing =
            {i \in DOMAIN pot.diffusion_mask :
                \A j \in DOMAIN pot.diffusion_mask :
                    pot.diffusion_mask[j] => (j - i > 1 \/ i - j > 1)}

\* a motif of one residue in five: its two neighbours do not contribute
C10_Witness ==
    /\ SubstrateCall /\ ret.kind = "neg_energy_sum"
    /\ Motif = <<1>> /\ shape0(xyz) = 5
    /\ Contributing = {3, 4}

\* the distance sqrt(sum_sq), in units of 0.005^2 = 0.000025
Distance(sum_sq) == sqrt(sum_sq)

\* two distances differ by less than 0.01 = 400 * 0.000025
Within001(d1, d2) == ~IsNaN(d1) /\ ~IsNaN(d2) /\ Abs(d1[1] - d2[1]) < 400

\* the call sampled a frame and reached the assertion
SelfChecked == SubstrateCall /\ call.ext.rand_idx.kind = "tensor"

\* C11 as stated: substrate_contacts.compute compares the distance between
\* the first substrate atom and the first frame atom before the transform
\* with the one after it; it raises an assertion if the two distances differ
\* by 0.01 or more, and returns a potential only if they agree within 0.01.
C11_AsStated ==
    SelfChecked =>
        IF Within001(Distance(call.ext.sums[1]), Distance(call.ext.sums[2]))
        THEN ret.kind = "neg_energy_sum"
        ELSE ret = Raise("AssertionError")


ProfileCall ==
    call.op = "compute" /\ call.cls = "z_profile" /\ ret.kind = "num"

\* the residues of bucket i of a target: those at a height below the
\* bucket's height value and not below the height value before it
Bucket(i) ==
    {k \in DOMAIN xyz.Ca :
        /\ xyz.Ca[k][3] * pot.target_profile[i][1][2] < pot.target_profile[i][1][1]
        /\ i > 1 => xyz.Ca[k][3] * pot.target_profile[i - 1][1][2]
                        >= pot.target_profile[i - 1][1][1]}

\* the distance of residue k from the z axis
AxisDistance(k) == Sqrt(xyz.Ca[k][1] ^ 2 + xyz.Ca[k][2] ^ 2)

RECURSIVE SumDistances(_)
SumDistances(S) ==
    IF S = {} THEN 0
    ELSE LET k == CHOOSE m \in S : TRUE
         IN  AxisDistance(k) + SumDistances(S \ {k})

\* <<min, mean, max>> of the radii of a set of residues that is not empty
Statistics(S) ==
    <<Whole(CHOOSE m \in {AxisDistance(k) : k \in S} :
                \A k \in S : m <= AxisDistance(k)),
      Rat(SumDistances(S), Cardinality(S)),
      Whole(CHOOSE m \in {AxisDistance(k) : k \in S} :
                \A k \in S : m >= AxisDistance(k))>>

Populated == {i \in DOMAIN pot.target_profile : Bucket(i) # {}}

\* the statistics of every bucket that holds residues are the target's
AtTarget ==
    \A i \in Populated :
        \A j \in 1..3 : Statistics(Bucket(i))[j] = pot.target_profile[i][j + 1]

\* C12: z_profile.compute on a structure whose minimum, mean and maximum
\* Calpha radius in every bucket of heights equal the target profile's
\* returns the potential 0, with a cutoff and without one.
C12_ZeroAtTarget == (ProfileCall /\ AtTarget) => ret = Num(Whole(0))

\* a structure at the target with residues in two buckets, scored with a
\* cutoff
C12_Witness ==
    /\ ProfileCall /\ AtTarget
    /\ Cardinality(Populated) = 2
    /\ truthy(pot.cutoff)
    /\ ret = Num(Whole(0))

\* the same without a cutoff
C12_WitnessNoCutoff ==
    /\ ProfileCall /\ AtTarget
    /\ Cardinality(Populated) = 2
    /\ pot.cutoff = <<>>
    /\ ret = Num(Whole(0))


\* the deviation of statistic j of bucket i from the target's
Deviation(i, j) == RSub(Statistics(Bucket(i))[j], pot.target_profile[i][j + 1])

\* larger in absolute value than the cutoff, when there is one
Contributes(d) == pot.cutoff # <<>> => Abs(d[1]) > pot.cutoff[1] * d[2]

Contribution(i, j) ==
    IF Contributes(Deviation(i, j))
    THEN RMul(Deviation(i, j), Deviation(i, j))
    ELSE Whole(0)

\* the sum of the contributing squared deviations of the buckets from i on
RECURSIVE Penalty(_)
Penalty(i) ==
    IF i > Len(pot.target_profile) THEN Whole(0)
    ELSE RAdd(IF i \in Populated
              THEN RSum([j \in 1..3 |-> Contribution(i, j)])
              ELSE Whole(0),
              Penalty(i + 1))

\* C18: with a cutoff c the deviation of a bucket's minimum, mean or
\* maximum radius from the target's contributes its square exactly when its
\* absolute value is larger than c, without a cutoff every deviation
\* contributes, and the potential is -weight times the sum of the
\* contributing squares.
C18_AsStated ==
    ProfileCall => ret = Num(RMul(Whole(-pot.weight), Penalty(1)))


HbCall == call.op = "compute" /\ call.cls = "hb_contacts"

\* the tensors of the call that was just made
CallMemory == hb_contacts_memory(pot, xyz, installed)

\* a tensor whose rows are not what they were when it was made
Written(b) == b.now # b.made

\* every tensor written by the call is a clone made inside it
PrivateWrites ==
    HbCall => \A m \in {CallMemory} :
                \A k \in DOMAIN m : Written(m[k]) => m[k].by = "clone"

\* C13: a compute call leaves the xyz it is given as it was, and the ideal
\* oxygens of hb_contacts are written only into a copy private to the call.
C13_InputKept ==
    [][call'.op = "compute" => (xyz' = xyz /\ PrivateWrites')]_vars

\* a call on a structure with a NaN oxygen that wrote an ideal oxygen
C13_Witness ==
    /\ HbCall /\ ret.kind = "num"
    /\ \E i \in DOMAIN xyz.O : ~xyz.O[i]
    /\ \E m \in {CallMemory} : \E k \in DOMAIN m : Written(m[k])


\* C14 as stated: a compute call leaves the object as it was, the motif
\* frame of substrate_contacts included.
C14_AsStated == [][call'.op = "compute" => pot' = pot]_vars

\* the attributes of substrate_contacts other than the sampled frame
Configuration == DOMAIN pot \ {"motif_frame", "motif_mapping"}

\* the object as it was before its first compute call
Unsampled == [pot EXCEPT !.motif_frame = <<>>, !.motif_mapping = <<>>]

\* the call returned what it returns on an object that was never called
FirstCallValue ==
    SubstrateCall =>
        ret = substrate_contacts_compute(Unsampled, xyz, call.ext.rand_idx,
                                         call.ext.sums)[2]

\* C14 for substrate_contacts: a compute call overwrites motif_frame and
\* motif_mapping with the draw of that call and leaves every other
\* attribute as it was; the value it returns depends on the construction
\* arguments, the assigned mask, the inputs and the draw of the call, and
\* not on earlier calls.
C14_FrameResampled ==
    /\ []FirstCallValue
    /\ [][call'.op = "compute" =>
            \A f \in Configuration : pot'[f] = pot[f]]_vars

\* a call that returned a value and left in the object a frame drawn from
\* four or more motif residues
C14_Witness ==
    /\ SubstrateCall /\ ret.kind = "neg_energy_sum"
    /\ Len(pot.motif_frame) = 4
    /\ Len(Motif) >= 4


AdapterInit(c) == call.op = "init" /\ call.cls = c

\* a compute call of an object with chains on a structure whose chains have
\* equal lengths: the call gets as far as its library
ChainsCall(c) ==
    /\ call.op = "compute" /\ call.cls = c
    /\ pot.nchain > 0
    /\ shape0(xyz) % pot.nchain = 0

\* C15 as stated: constructing hb_contacts or madrax_energy does not fail
\* for a library that is not installed, and the compute call of either
\* fails with the error for its library when the library is not installed.
C15_AsStated ==
    /\ (AdapterInit("hb_contacts") \/ AdapterInit("madrax_energy")) =>
            call.exc \in {"", "AssertionError"}
    /\ (ChainsCall("hb_contacts") /\ installed["pydssp"] = "no") =>
            ret = Raise("RuntimeError")
    /\ (ChainsCall("madrax_energy") /\ installed["madrax"] = "no") =>
            ret = Raise("ImportError")

\* C15: hb_contacts is constructed without importing pydssp and its compute
\* call raises the RuntimeError of get_bb_hbond_map when pydssp is not
\* installed; madrax_energy imports madrax in its constructor, which raises
\* ImportError and leaves no object when madrax is not installed, so a
\* madrax_energy that is computed has madrax installed.
C15_FirstImport ==
    /\ AdapterInit("hb_contacts") =>
            /\ call.exc \in {"", "AssertionError"}
            /\ installed["pydssp"] = "unknown"
    /\ (ChainsCall("hb_contacts") /\ installed["pydssp"] = "no") =>
            ret = Raise("RuntimeError")
    /\ (AdapterInit("madrax_energy") /\ installed["madrax"] = "no") =>
            call.exc = "ImportError" /\ pot = None
    /\ call.cls = "madrax_energy" =>
            /\ installed["madrax"] # "unknown"
            /\ call.op = "compute" => installed["madrax"] = "yes"

\* hb_contacts was constructed and its compute call failed for pydssp
C15_Witness ==
    /\ ChainsCall("hb_contacts") /\ installed["pydssp"] = "no"
    /\ ret = Raise("RuntimeError")

\* the constructor of madrax_energy failed for madrax
C15_WitnessConstructor ==
    /\ AdapterInit("madrax_energy") /\ installed["madrax"] = "no"
    /\ call.exc = "ImportError"


\* an object with chains and the structure of its calls
Chained == pot.cls = "olig_contacts" /\ pot.nchain > 0 /\ xyz # NoXyz

\* the set of indices _get_idx(i, L) returns
Indices(i) ==
    {get_idx(pot, i, shape0(xyz)).idx[k] :
        k \in DOMAIN get_idx(pot, i, shape0(xyz)).idx}

\* C16: when nchain divides L, _get_idx(i, L) is the range
\* i*Lchain .. (i+1)*Lchain - 1 in increasing order, with Lchain = L/nchain;
\* the nchain segments have equal length, are pairwise disjoint and cover
\* 0..L-1.  When nchain does not divide L, _get_idx raises AssertionError.
C16_Partition ==
    Chained =>
        LET L == shape0(xyz)
            Lchain == L \div pot.nchain
            chain == 0..(pot.nchain - 1)
        IN  IF L % pot.nchain = 0
            THEN /\ \A i \in chain :
                        /\ get_idx(pot, i, L).kind = "idx"
                        /\ Len(get_idx(pot, i, L).idx) = Lchain
                        /\ \A k \in 1..Lchain :
                                get_idx(pot, i, L).idx[k] = i * Lchain + k - 1
                 /\ \A i, j \in chain : i # j => Indices(i) \cap Indices(j) = {}
                 /\ UNION {Indices(i) : i \in chain} = 0..(L - 1)
            ELSE \A i \in chain : get_idx(pot, i, L) = Raise("AssertionError")

\* compute split four residues into two chains of two
C16_Witness ==
    /\ OligCall /\ pot.nchain = 2 /\ shape0(xyz) = 4
    /\ ret.kind = "num"
    /\ Indices(0) = {0, 1} /\ Indices(1) = {2, 3}

\* compute was refused three residues for two chains
C16_WitnessAssertion ==
    /\ OligCall /\ pot.nchain = 2 /\ shape0(xyz) = 3
    /\ ret = Raise("AssertionError")


\* the Calpha of residues a and b are at a distance d with |d - d_0| = r_0
Singular(a, b) ==
    \E d \in {pot.d_0 + pot.r_0, pot.d_0 - pot.r_0} :
        d >= 0 /\ SqDist(xyz.Ca[a], xyz.Ca[b]) = d * d

\* the chain of residue a
ChainOf(a) == a \div (shape0(xyz) \div pot.nchain)

\* the pairs of residues whose distance the potential of the call puts
\* through the kernel
KernelPairs ==
    LET L == shape0(xyz)
        residue == 0..(L - 1)
    IN  IF call.cls = "binder_ncontacts"
        THEN {p \in residue \X residue :
                p[1] < pot.binderlen /\ p[2] < pot.binderlen}
        ELSE IF call.cls = "interface_ncontacts"
        THEN {p \in residue \X residue :
                p[1] < pot.binderlen /\ p[2] >= pot.binderlen}
        ELSE IF call.cls = "monomer_contacts"
        THEN residue \X residue
        ELSE IF call.cls = "olig_contacts" /\ Divisible
        THEN {p \in residue \X residue :
                /\ ChainOf(p[1]) <= ChainOf(p[2])
                /\ At(pot.contact_matrix, ChainOf(p[1]), ChainOf(p[2])) # 0}
        ELSE {}

\* a compute call in which a pair at the singular distance went through
\* the kernel
SingularCall ==
    /\ call.op = "compute"
    /\ \E p \in KernelPairs : Singular(p[1], p[2])

\* C17: when the distance of some Calpha pair that binder_ncontacts,
\* interface_ncontacts, monomer_contacts or olig_contacts puts through the
\* kernel is exactly at the singular distance |d - d_0| = r_0, compute
\* raises no error and the potential it returns is NaN.
C17_NaNReturned == SingularCall => (ret.kind = "num" /\ IsNaN(ret.v))

\* the four potentials, each with a pair at the singular distance
C17_Witness ==
    SingularCall /\ call.cls = "interface_ncontacts" /\ IsNaN(ret.v)

C17_WitnessMonomer ==
    SingularCall /\ call.cls = "monomer_contacts" /\ IsNaN(ret.v)

C17_WitnessBinder ==
    SingularCall /\ call.cls = "binder_ncontacts" /\ IsNaN(ret.v)

C17_WitnessOlig ==
    SingularCall /\ call.cls = "olig_contacts" /\ IsNaN(ret.v)


\* C19 as stated, for the tables a constructor was looked up in: every name
\* in require_binderlen is a key of implemented_potentials, and the
\* constructor registered under a name has a required binderlen parameter
\* exactly when the name is in require_binderlen.
C19_AsStated ==
    call.op = "init" =>
        /\ call.cls \in DOMAIN implemented_potentials
        /\ require_binderlen \subseteq DOMAIN implemented_potentials
        /\ \A name \in DOMAIN implemented_potentials :
                "binderlen" \in implemented_potentials[name]
                    <=> name \in require_binderlen

====
